---- MODULE Spec2Model ----
(***************************************************************************)
(* Model of dispatch/dispatch.py: the annotation parser (annotation_info), *)
(* the default resolver (first_satisfiable), the metaclass lookup          *)
(* (DispatcherMeta.__getattr__) and the registration forms of the class    *)
(* made by get_dispatcher (Dispatcher.__new__, Dispatcher.__call__, the    *)
(* resolver property).                                                     *)
(*                                                                         *)
(* A Python string is modelled as a sequence of tokens: " " is a white-    *)
(* space character, "&" the ampersand, every other token an expression     *)
(* without "&" and without white space at its ends.                        *)
(***************************************************************************)
EXTENDS Integers, Sequences, FiniteSets, TLC

VARIABLES funcs, to_bind, resolver, inst_resolver, configured, last, thr, pfn, presult

vars == <<funcs, to_bind, resolver, inst_resolver, configured, last, thr, pfn, presult>>

\* ------------------------------------------------------------------ bounds
NumDispatchers == 2
MaxImpls == 3
MaxLen == 4

Dispatchers == 1..NumDispatchers

None == "None"

\* ------------------------------------------------------------ Python strings
WS == " "
AMP == "&"

\* str.strip(): drop the white space at both ends
RECURSIVE lstrip(_)
lstrip(s) == IF s # <<>> /\ Head(s) = WS THEN lstrip(Tail(s)) ELSE s

RECURSIVE rstrip(_)
rstrip(s) == IF s # <<>> /\ s[Len(s)] = WS THEN rstrip(SubSeq(s, 1, Len(s) - 1)) ELSE s

strip(s) == rstrip(lstrip(s))

\* index of the first "&" of s at or after i, 0 when there is none
RECURSIVE find_amp(_, _)
find_amp(s, i) == IF i > Len(s) THEN 0 ELSE IF s[i] = AMP THEN i ELSE find_amp(s, i + 1)

\* index of the last "&" of s at or before i, 0 when there is none
RECURSIVE rfind_amp(_, _)
rfind_amp(s, i) == IF i = 0 THEN 0 ELSE IF s[i] = AMP THEN i ELSE rfind_amp(s, i - 1)

\* a variant that splits at the last "&", as s.rsplit("&", maxsplit=1) does
split_amp_last(s) ==
    LET i == rfind_amp(s, Len(s))
    IN  IF i = 0 THEN <<s>> ELSE <<SubSeq(s, 1, i - 1), SubSeq(s, i + 1, Len(s))>>

\* s.split("&", maxsplit=1)
split_amp(s) ==
    LET i == find_amp(s, 1)
    IN  IF i = 0 THEN <<s>> ELSE <<SubSeq(s, 1, i - 1), SubSeq(s, i + 1, Len(s))>>

\* --------------------------------------------------------------------- eval
\* The expressions of the model and what eval() gives for each of them inside
\* annotation_info (module globals of dispatch.py, locals of annotation_info):
\* a type, a union of types, a value that is not a type, or an exception.
TypeExprs == {"int", "float"}
UnionExprs == {"int | float"}
ValueExprs == {"4 > 5", "2 < 3"}
RaisingExprs == {"a > 42", "a < 500", "0 < n < 65536", "SpecialInt"}
Exprs == TypeExprs \cup UnionExprs \cup ValueExprs \cup RaisingExprs

Raised == [kind |-> "raised", v |-> None]
AnyType == [kind |-> "Any", v |-> None]

eval_expr(e) ==
    CASE e \in TypeExprs -> [kind |-> "type", v |-> e]
      [] e \in UnionExprs -> [kind |-> "UnionType", v |-> e]
      [] e = "4 > 5" -> [kind |-> "value", v |-> "False"]
      [] e = "2 < 3" -> [kind |-> "value", v |-> "True"]
      [] OTHER -> Raised

\* eval(s): white space around the expression is ignored; the empty string and
\* two expressions side by side are syntax errors
eval(s) ==
    LET t == strip(s)
    IN  IF Len(t) = 1 /\ t[1] \in Exprs THEN eval_expr(t[1]) ELSE Raised

\* a variant that accepts plain classes only
isinstance_type_no_union(v) == v.kind = "type"

\* isinstance(type_, (type, UnionType))
isinstance_type(v) == v.kind \in {"type", "UnionType"}

\* a variant that spells booleans in lower case
str_value_lower(v) == <<IF v.v = "False" THEN "false" ELSE "true">>

\* str(type_) of an evaluated value that is not a type
str_value(v) == <<v.v>>

\* ------------------------------------------------------- annotation_info
AnnotationInfo(type, predicate) == [type |-> type, predicate |-> predicate]

\* a variant whose fallback keeps only the text after the "&"
annotate_with_amp_one_side(ann, parts) ==
    LET type_ == eval(parts[1])
    IN  IF type_.kind = "raised"
        THEN <<AnnotationInfo(AnyType, strip(parts[2]))>>
        ELSE IF isinstance_type(type_)
             THEN <<AnnotationInfo(type_, strip(parts[2]))>>
             ELSE <<>>

\* the entry annotation_info stores for one annotated argument: <<info>>, or
\* <<>> when the code path stores nothing
annotate_with_amp(ann, parts) ==
    LET type_ == eval(parts[1])
    IN  IF type_.kind = "raised"
        THEN <<AnnotationInfo(AnyType, strip(ann))>>
        ELSE IF isinstance_type(type_)
             THEN <<AnnotationInfo(type_, strip(parts[2]))>>
             ELSE <<>>

annotate_without_amp(parts) ==
    LET type_ == eval(parts[1])
    IN  IF type_.kind = "raised"
        THEN <<AnnotationInfo(AnyType, strip(parts[1]))>>
        ELSE IF isinstance_type(type_)
             THEN <<AnnotationInfo(type_, <<"True">>)>>
             ELSE <<AnnotationInfo(AnyType, str_value(type_))>>

annotate_arg(fn, arg) ==
    IF arg \notin DOMAIN fn.annotations
    THEN <<AnnotationInfo(AnyType, <<"True">>)>>
    ELSE LET parts == split_amp(fn.annotations[arg])
         IN  IF Len(parts) = 2
             THEN annotate_with_amp(fn.annotations[arg], parts)
             ELSE annotate_without_amp(parts)

\* the dict built by the loop over co_varnames[:co_argcount], as the sequence
\* of its items in insertion order
RECURSIVE annotation_loop(_, _)
annotation_loop(fn, i) ==
    IF i > fn.co_argcount THEN <<>>
    ELSE LET arg == fn.co_varnames[i]
             e == annotate_arg(fn, arg)
         IN  (IF e = <<>> THEN <<>> ELSE <<[arg |-> arg, info |-> e[1]]>>)
             \o annotation_loop(fn, i + 1)

annotation_info(fn) == annotation_loop(fn, 1)

function_info(fn, ai) == [fn |-> fn, annotation_info |-> ai]

\* ------------------------------------------------------------- callables
\* A callable: its identifier (__name__), its code object's co_varnames and
\* co_argcount, and its __annotations__ (argument -> annotation string).
Callable(id, name, varnames, argcount, annotations) ==
    [id |-> id, name |-> name, co_varnames |-> varnames,
     co_argcount |-> argcount, annotations |-> annotations]

\* f(n: int & 0 < n < 65536) and g(n: int), both called classify
classify_small ==
    Callable("f", "classify", <<"n">>, 1, [n |-> <<"int", WS, AMP, WS, "0 < n < 65536">>])
classify_big == Callable("g", "classify", <<"n">>, 1, [n |-> <<"int">>])
\* show(a: int, b: int) and show(a: SpecialInt, b: int) of tests/test_mro.py
show_int == Callable("A", "show", <<"a", "b">>, 2, [a |-> <<"int">>, b |-> <<"int">>])
show_special ==
    Callable("B", "show", <<"a", "b">>, 2, [a |-> <<"SpecialInt">>, b |-> <<"int">>])

Callables == {classify_small, classify_big, show_int, show_special}
ExplicitNames == {"X", "Y"}
Names == {c.name : c \in Callables} \cup ExplicitNames

\* call arguments: values with their runtime type
Value(type, v) == [type |-> type, v |-> v]
ArgLists ==
    { <<Value("int", 42)>>, <<Value("int", 100000)>>,
      <<Value("SpecialInt", 13), Value("int", 3)>> }

\* --------------------------------------------------------------- resolvers
\* a variant resolver that prefers the newest candidate
first_satisfiable_newest(implementations) == implementations[Len(implementations)].fn

first_satisfiable(implementations) == implementations[1].fn

\* an alternate resolver a caller may configure
last_registered(implementations) == implementations[Len(implementations)].fn

Alternates == {"last_registered"}

\* cls.resolver(implementations), for the value held by the class attribute
call_resolver(r, implementations) ==
    CASE r = "first_satisfiable" -> first_satisfiable(implementations)
      [] r = "last_registered" -> last_registered(implementations)

\* ------------------------------------------------------------------ state
\* funcs[d]         the defaultdict(list) of class d: a function whose domain
\*                  is the set of keys present
\* to_bind[d]       the class attribute to_bind
\* resolver[d]      the class attribute resolver: "property" while it is the
\*                  property object of the class body, else a resolver
\* inst_resolver[d] the entry "resolver" of the __dict__ of the newest
\*                  instance of d: "noinst" (no instance), "unset", a resolver
\* configured[d]    the resolver last assigned through instance.resolver = R
\* last             the last operation, its inputs and its outcome
\* thr              two callers that each make a binder and then apply it
\* pfn, presult     a callable handed to annotation_info and the result

\* the class made by the module's own get_dispatcher() call
DefaultDispatcher == 1

Op(op, d, fn, name, args, result, ret, called) ==
    [op |-> op, d |-> d, fn |-> fn, name |-> name, args |-> args,
     result |-> result, ret |-> ret, called |-> called, report |-> <<>>]

RECURSIVE count_impls(_, _)
count_impls(fs, S) ==
    IF S = {} THEN 0
    ELSE LET n == CHOOSE n \in S : TRUE
         IN  Len(fs[n]) + count_impls(fs, S \ {n})

\* sum(len(funcs) for funcs in cls.funcs.values())
n_impls(fs) == count_impls(fs, DOMAIN fs)

RECURSIVE total_impls(_)
total_impls(n) == IF n = 0 THEN 0 ELSE n_impls(funcs[n]) + total_impls(n - 1)

\* funcs.get(name, [])
funcs_get(fs, name) == IF name \in DOMAIN fs THEN fs[name] ELSE <<>>

\* a variant that rebinds the name to the new implementation alone
funcs_append_replacing(fs, name, implementation) ==
    [n \in DOMAIN fs \cup {name} |-> IF n = name THEN <<implementation>> ELSE fs[n]]

\* funcs[name].append(implementation) on the defaultdict
funcs_append(fs, name, implementation) ==
    [n \in DOMAIN fs \cup {name} |->
        IF n = name THEN Append(funcs_get(fs, n), implementation) ELSE fs[n]]

InitDispatchers ==
    /\ funcs = [d \in Dispatchers |-> <<>>]
    /\ to_bind = [d \in Dispatchers |-> None]
    /\ resolver = [d \in Dispatchers |-> "property"]
    /\ inst_resolver = [d \in Dispatchers |-> "noinst"]
    /\ configured = [d \in Dispatchers |-> None]
    /\ last = Op("init", 0, None, None, <<>>, "ok", None, FALSE)

Init ==
    /\ InitDispatchers
    /\ thr = <<>>
    /\ pfn = None
    /\ presult = None

\* new.resolver = first_satisfiable in __new__: the property setter while the
\* class attribute is still the property, an instance attribute afterwards
new_class_resolver(r) == IF r = "property" THEN "first_satisfiable" ELSE r
new_inst_resolver(r) == IF r = "property" THEN "unset" ELSE "first_satisfiable"

\* the name __new__ registers fn under: name = fn.__name__
new_bind_name(fn, name, pending) == fn.name

\* to_bind after __new__ with a callable
new_fn_to_bind(pending) == pending

\* Dispatcher.__new__(cls, fn, name=name) with a callable
Dispatcher_new_fn(d, fn, name) ==
    /\ total_impls(NumDispatchers) < MaxImpls
    /\ resolver' = [resolver EXCEPT ![d] = new_class_resolver(@)]
    /\ inst_resolver' = [inst_resolver EXCEPT ![d] = new_inst_resolver(resolver[d])]
    /\ LET bname == new_bind_name(fn, name, to_bind[d])
           implementation == function_info(fn, annotation_info(fn))
       IN  /\ funcs' = [funcs EXCEPT ![d] = funcs_append(@, bname, implementation)]
           /\ last' = Op("new", d, fn.id, name, <<>>, "ok", bname, FALSE)
    /\ to_bind' = [to_bind EXCEPT ![d] = new_fn_to_bind(@)]
    /\ UNCHANGED configured

\* does __new__ without a callable raise ValueError
new_raises(name) == name = ""

\* a variant that stores the name before it is validated
new_to_bind_eager(name, pending) == name

\* to_bind after __new__ without a callable
new_to_bind(name, pending) == IF new_raises(name) THEN pending ELSE name

\* a variant with one pending name for all the classes get_dispatcher makes
Dispatcher_new_name_global(d, name) ==
    /\ resolver' = [resolver EXCEPT ![d] = new_class_resolver(@)]
    /\ inst_resolver' = [inst_resolver EXCEPT ![d] =
            IF new_raises(name) THEN @ ELSE new_inst_resolver(resolver[d])]
    /\ to_bind' = [e \in Dispatchers |-> new_to_bind(name, to_bind[e])]
    /\ last' = Op("new", d, None, name, <<>>,
                  IF new_raises(name) THEN "ValueError" ELSE "ok", None, FALSE)
    /\ UNCHANGED <<funcs, configured>>

\* Dispatcher.__new__(cls, None, name=name)
Dispatcher_new_name(d, name) ==
    /\ resolver' = [resolver EXCEPT ![d] = new_class_resolver(@)]
    /\ inst_resolver' = [inst_resolver EXCEPT ![d] =
            IF new_raises(name) THEN @ ELSE new_inst_resolver(resolver[d])]
    /\ to_bind' = [to_bind EXCEPT ![d] = new_to_bind(name, @)]
    /\ last' = Op("new", d, None, name, <<>>,
                  IF new_raises(name) THEN "ValueError" ELSE "ok", None, FALSE)
    /\ UNCHANGED <<funcs, configured>>

\* name = self.__class__.to_bind or fn.__name__
call_bind_name(fn, pending) == IF pending \in {None, ""} THEN fn.name ELSE pending

\* Dispatcher.__call__(self, fn) on an instance of d
Dispatcher_call(d, fn) ==
    /\ inst_resolver[d] # "noinst"
    /\ total_impls(NumDispatchers) < MaxImpls
    /\ LET bname == call_bind_name(fn, to_bind[d])
           implementation == function_info(fn, annotation_info(fn))
       IN  /\ funcs' = [funcs EXCEPT ![d] = funcs_append(@, bname, implementation)]
           /\ last' = Op("call", d, fn.id, None, <<>>, "ok", bname, FALSE)
    /\ to_bind' = [to_bind EXCEPT ![d] = None]
    /\ UNCHANGED <<resolver, inst_resolver, configured>>

\* instance.resolver = r
resolver_setter(d, r) ==
    /\ inst_resolver[d] # "noinst"
    /\ IF resolver[d] = "property"
       THEN /\ resolver' = [resolver EXCEPT ![d] = r]
            /\ UNCHANGED inst_resolver
       ELSE /\ inst_resolver' = [inst_resolver EXCEPT ![d] = r]
            /\ UNCHANGED resolver
    /\ configured' = [configured EXCEPT ![d] = r]
    /\ last' = Op("set_resolver", d, None, r, <<>>, "ok", None, FALSE)
    /\ UNCHANGED <<funcs, to_bind>>

\* a variant that hands an empty candidate list to the resolver
getattr_outcome_unguarded(r, implementations) ==
    IF r = "property"
    THEN [result |-> "TypeError", ret |-> None, called |-> FALSE]
    ELSE IF implementations = <<>>
         THEN [result |-> "IndexError", ret |-> None, called |-> TRUE]
         ELSE [result |-> "ok", ret |-> call_resolver(r, implementations).id,
               called |-> TRUE]

\* DispatcherMeta.__getattr__(cls, name), and the call of what it returns
getattr_outcome(r, implementations) ==
    IF implementations = <<>>
    THEN [result |-> "AttributeError", ret |-> None, called |-> FALSE]
    ELSE IF r = "property"
         THEN [result |-> "TypeError", ret |-> None, called |-> FALSE]
         ELSE LET implementation == call_resolver(r, implementations)
              IN  [result |-> "ok", ret |-> implementation.id, called |-> TRUE]

\* a variant that reads cls.funcs[name], which makes the defaultdict store an
\* empty list under a missing key
Meta_getattr_defaulting(d, name, args) ==
    /\ LET o == getattr_outcome(resolver[d], funcs_get(funcs[d], name))
       IN  last' = Op("getattr", d, None, name, args, o.result, o.ret, o.called)
    /\ funcs' = [funcs EXCEPT ![d] =
                    [n \in DOMAIN @ \cup {name} |-> funcs_get(@, n)]]
    /\ UNCHANGED <<to_bind, resolver, inst_resolver, configured>>

Meta_getattr(d, name, args) ==
    /\ LET o == getattr_outcome(resolver[d], funcs_get(funcs[d], name))
       IN  last' = Op("getattr", d, None, name, args, o.result, o.ret, o.called)
    /\ UNCHANGED <<funcs, to_bind, resolver, inst_resolver, configured>>

\* the names left in a class namespace by a notebook front end
namespace_detritus ==
    {"_ipython_canary_method_should_not_exist_", "_ipython_display_", "_repr_mimebundle_"}

\* a variant that lists the newest candidate of a key first
Meta_repr_newest_first(fs) ==
    [key \in DOMAIN fs |->
        [n \in 1..Len(fs[key]) |->
            LET fi == fs[key][Len(fs[key]) + 1 - n]
            IN  [fn |-> fi.fn.id, rebound |-> key # fi.fn.name,
                 lines |-> fi.annotation_info]]]

\* DispatcherMeta.__repr__: for every key its candidates in list order, each
\* with the re-bound flag and its argument lines
Meta_repr(fs) ==
    [key \in DOMAIN fs |->
        [n \in 1..Len(fs[key]) |->
            [fn |-> fs[key][n].fn.id,
             rebound |-> key # fs[key][n].fn.name,
             lines |-> fs[key][n].annotation_info]]]

\* a variant that counts every key as a name
Meta_str_all_names(fs) ==
    [n_names |-> Cardinality(DOMAIN fs), n_impls |-> n_impls(fs)]

\* DispatcherMeta.__str__: the two counts of the summary
Meta_str(fs) ==
    [n_names |-> Cardinality({f \in DOMAIN fs : f \notin namespace_detritus}),
     n_impls |-> n_impls(fs)]

\* DispatcherMeta.describe(cls): print(repr(cls))
describe(d) ==
    /\ last' = [Op("describe", d, None, None, <<>>, "ok", None, FALSE)
                    EXCEPT !.report = Meta_repr(funcs[d])]
    /\ UNCHANGED <<funcs, to_bind, resolver, inst_resolver, configured>>

\* str(cls)
summary(d) ==
    /\ last' = [Op("str", d, None, None, <<>>, "ok", None, FALSE)
                    EXCEPT !.report = Meta_str(funcs[d])]
    /\ UNCHANGED <<funcs, to_bind, resolver, inst_resolver, configured>>

\* ---------------------------------------------- the default Dispatcher in use
LookupNames == {c.name : c \in Callables} \cup {"X"}

Register ==
    /\ \E fn \in Callables : Dispatcher_new_fn(DefaultDispatcher, fn, "")
    /\ UNCHANGED <<thr, pfn, presult>>

Attach ==
    /\ \E name \in {"", "X"} : Dispatcher_new_name(DefaultDispatcher, name)
    /\ UNCHANGED <<thr, pfn, presult>>

Bind ==
    /\ \E fn \in Callables : Dispatcher_call(DefaultDispatcher, fn)
    /\ UNCHANGED <<thr, pfn, presult>>

SetResolver ==
    /\ \E r \in Alternates : resolver_setter(DefaultDispatcher, r)
    /\ UNCHANGED <<thr, pfn, presult>>

Lookup ==
    /\ \E name \in LookupNames, args \in ArgLists :
          Meta_getattr(DefaultDispatcher, name, args)
    /\ UNCHANGED <<thr, pfn, presult>>

Describe ==
    /\ describe(DefaultDispatcher)
    /\ UNCHANGED <<thr, pfn, presult>>

Summary ==
    /\ summary(DefaultDispatcher)
    /\ UNCHANGED <<thr, pfn, presult>>

Next ==
    \/ Register
    \/ Attach
    \/ Bind
    \/ SetResolver
    \/ Lookup
    \/ Describe
    \/ Summary

Spec == Init /\ [][Next]_vars

\* ------------------------- the default Dispatcher with a reserved name in use
ReservedName == "_ipython_display_"

RegisterS ==
    /\ \E fn \in {classify_small, show_int} : Dispatcher_new_fn(DefaultDispatcher, fn, "")
    /\ UNCHANGED <<thr, pfn, presult>>

AttachS ==
    /\ \E name \in {"", ReservedName} : Dispatcher_new_name(DefaultDispatcher, name)
    /\ UNCHANGED <<thr, pfn, presult>>

BindS ==
    /\ \E fn \in {classify_small, show_int} : Dispatcher_call(DefaultDispatcher, fn)
    /\ UNCHANGED <<thr, pfn, presult>>

LookupS ==
    /\ \E name \in {"classify", "X", ReservedName} :
          Meta_getattr(DefaultDispatcher, name, <<Value("int", 42)>>)
    /\ UNCHANGED <<thr, pfn, presult>>

SummaryS ==
    /\ summary(DefaultDispatcher)
    /\ UNCHANGED <<thr, pfn, presult>>

NextSummary ==
    \/ RegisterS
    \/ AttachS
    \/ BindS
    \/ LookupS
    \/ SummaryS

SpecSummary == Init /\ [][NextSummary]_vars

\* ------------------------------- several classes made by get_dispatcher()
RegisterI ==
    /\ \E d \in Dispatchers, fn \in {classify_small, classify_big} :
          Dispatcher_new_fn(d, fn, "")
    /\ UNCHANGED <<thr, pfn, presult>>

AttachI ==
    /\ \E d \in Dispatchers, name \in {"", "X"} : Dispatcher_new_name(d, name)
    /\ UNCHANGED <<thr, pfn, presult>>

BindI ==
    /\ \E d \in Dispatchers : Dispatcher_call(d, classify_big)
    /\ UNCHANGED <<thr, pfn, presult>>

LookupI ==
    /\ \E d \in Dispatchers : Meta_getattr(d, "classify", <<Value("int", 42)>>)
    /\ UNCHANGED <<thr, pfn, presult>>

NextIsolated ==
    \/ RegisterI
    \/ AttachI
    \/ BindI
    \/ LookupI

SpecIsolated == Init /\ [][NextIsolated]_vars

\* ------------------------------------- two callers, each with its own binder
\* Caller t runs  b = Dispatcher(name=thr[t].name)  and then  b(thr[t].fn).
Threads == {1, 2}

InitBinders ==
    /\ InitDispatchers
    /\ thr \in {t \in [Threads -> [name : ExplicitNames, fn : Callables, pc : {"attach"}]] :
                    t[1].name # t[2].name}
    /\ pfn = None
    /\ presult = None

ThreadAttach(t) ==
    /\ thr[t].pc = "attach"
    /\ Dispatcher_new_name(DefaultDispatcher, thr[t].name)
    /\ thr' = [thr EXCEPT ![t].pc = "bind"]
    /\ UNCHANGED <<pfn, presult>>

ThreadBind(t) ==
    /\ thr[t].pc = "bind"
    /\ Dispatcher_call(DefaultDispatcher, thr[t].fn)
    /\ thr' = [thr EXCEPT ![t].pc = "done"]
    /\ UNCHANGED <<pfn, presult>>

NextBinders ==
    \/ \E t \in Threads : ThreadAttach(t)
    \/ \E t \in Threads : ThreadBind(t)

SpecBinders == InitBinders /\ [][NextBinders]_vars

\* ------------------------------------------------ annotation_info on its own
ParseTokens == {WS, AMP, "int", "int | float", "4 > 5", "a > 42"}

\* annotation strings: no two expressions side by side
WellFormed(s) == \A i \in 1..(Len(s) - 1) : ~(s[i] \in Exprs /\ s[i + 1] \in Exprs)

Annotations ==
    UNION {{s \in [1..n -> ParseTokens] : WellFormed(s)} : n \in 0..MaxLen}

\* def p(a[: A], b[: float]) [-> int]:  tmp = ...
ParseCallables ==
    {Callable("p", "p", <<"a", "b", "tmp">>, 2, anns) :
        anns \in UNION {[D -> Annotations] : D \in {{}, {"a"}}}}
    \cup
    {Callable("p", "p", <<"a", "b", "tmp">>, 2, anns) :
        anns \in UNION {[a : Annotations, b : {<<"float">>}],
                        [a : Annotations, b : {<<"float">>}, return : {<<"int">>}]}}

InitParse ==
    /\ InitDispatchers
    /\ thr = <<>>
    /\ pfn \in ParseCallables
    /\ presult = None

Parse ==
    /\ presult = None
    /\ presult' = annotation_info(pfn)
    /\ UNCHANGED <<funcs, to_bind, resolver, inst_resolver, configured, last, thr, pfn>>

NextParse == Parse

SpecParse == InitParse /\ [][NextParse]_vars

\* ================================================================ properties
\* class SpecialInt(int) of tests/test_mro.py: the parent of a nominal type
IsSubtype(t, T) == t = T \/ (t = "SpecialInt" /\ T = "int")

UnionMembers(e) == IF e = "int | float" THEN {"int", "float"} ELSE {e}

\* the runtime type of value v satisfies the type constraint
TypeSatisfied(type, v) ==
    CASE type.kind = "Any" -> TRUE
      [] type.kind = "type" -> IsSubtype(v.type, type.v)
      [] type.kind = "UnionType" -> \E T \in UnionMembers(type.v) : IsSubtype(v.type, T)

\* the predicate text holds of the argument it constrains
PredicateTrue(predicate, v) ==
    CASE predicate = <<"True">> -> TRUE
      [] predicate = <<"0 < n < 65536">> -> 0 < v.v /\ v.v < 65536
      [] OTHER -> FALSE

ArgIndex(fn, arg) == CHOOSE i \in 1..fn.co_argcount : fn.co_varnames[i] = arg

Matches(implementation, args) ==
    \A k \in 1..Len(implementation.annotation_info) :
        LET e == implementation.annotation_info[k]
            v == args[ArgIndex(implementation.fn, e.arg)]
        IN  TypeSatisfied(e.info.type, v) /\ PredicateTrue(e.info.predicate, v)

ArityOK(implementations, args) ==
    \A i \in 1..Len(implementations) : implementations[i].fn.co_argcount = Len(args)

FirstMatch(implementations, args) ==
    CHOOSE i \in 1..Len(implementations) :
        /\ Matches(implementations[i], args)
        /\ \A j \in 1..(i - 1) : ~Matches(implementations[j], args)

\* the candidates the last lookup saw
Candidates == funcs_get(funcs[last.d], last.name)

IsRegistration(o, d) == o.d = d /\ o.op \in {"new", "call"} /\ o.fn # None

OwnName(id) == (CHOOSE c \in Callables : c.id = id).name

IsPrefix(a, b) == Len(a) <= Len(b) /\ SubSeq(b, 1, Len(a)) = a

SpecialArgs == <<Value("SpecialInt", 13), Value("int", 3)>>

\* C1: a call by name under the default resolver runs the first candidate, in
\* registration order, whose type constraints and predicates the arguments
\* satisfy; candidates before it that are not satisfied are skipped.
C1_FirstSatisfiedCandidateRuns ==
    (last.op = "getattr" /\ resolver[last.d] = "first_satisfiable"
        /\ Candidates # <<>> /\ ArityOK(Candidates, last.args)
        /\ \E i \in 1..Len(Candidates) : Matches(Candidates[i], last.args))
    => /\ last.result = "ok"
       /\ last.ret = Candidates[FirstMatch(Candidates, last.args)].fn.id

\* C2: when a name has candidates and the arguments satisfy none of them, the
\* call fails with NoMatch (ValueError) and no implementation is selected.
C2_NoCandidateSatisfiedIsNoMatch ==
    (last.op = "getattr" /\ Candidates # <<>> /\ ArityOK(Candidates, last.args)
        /\ \A i \in 1..Len(Candidates) : ~Matches(Candidates[i], last.args))
    => /\ last.result = "ValueError"
       /\ last.ret = None

\* C3: a lookup fails with NotBound (AttributeError) exactly when no record
\* has been appended under the name, and then the resolver is not invoked.
C3_NotBoundIffNoRecord ==
    last.op = "getattr" =>
        /\ (last.result = "AttributeError") <=> (Candidates = <<>>)
        /\ Candidates = <<>> => ~last.called
        /\ (last.name \in DOMAIN funcs[last.d]) <=> (Candidates # <<>>)

C3_Witness ==
    /\ last.op = "getattr"
    /\ last.result = "AttributeError"
    /\ ~last.called
    /\ DOMAIN funcs[last.d] # {}
    /\ to_bind[last.d] = last.name

\* C4: once an explicit name N is pending, the next registration of either
\* form is appended under N and empties the slot, and a registration made
\* while nothing is pending is appended under the callable's own identifier.
C4_PendingNameTakesNextRegistration ==
    [][\A d \in Dispatchers :
          IsRegistration(last', d) =>
              /\ to_bind'[d] = None
              /\ last'.ret = (IF to_bind[d] # None THEN to_bind[d] ELSE OwnName(last'.fn))
      ]_vars

\* C5: every step leaves each name's list a prefix of its list after the
\* step; a registration adds one record at the end of one list and changes no
\* other list; any other step leaves the registry as it was.
C5_AppendOnlyPerName ==
    [][\A d \in Dispatchers :
          /\ \A n \in DOMAIN funcs[d] :
                n \in DOMAIN funcs'[d] /\ IsPrefix(funcs[d][n], funcs'[d][n])
          /\ IF IsRegistration(last', d)
             THEN \E n \in DOMAIN funcs'[d] :
                    /\ Len(funcs'[d][n]) = Len(funcs_get(funcs[d], n)) + 1
                    /\ funcs'[d][n][Len(funcs'[d][n])].fn.id = last'.fn
                    /\ \A m \in DOMAIN funcs'[d] \ {n} :
                          m \in DOMAIN funcs[d] /\ funcs'[d][m] = funcs[d][m]
             ELSE funcs'[d] = funcs[d]
      ]_vars

C5_Witness ==
    /\ IsRegistration(last, DefaultDispatcher)
    /\ "classify" \in DOMAIN funcs[DefaultDispatcher]
    /\ Len(funcs[DefaultDispatcher]["classify"]) = 3
    /\ funcs[DefaultDispatcher]["classify"][1].fn.id = funcs[DefaultDispatcher]["classify"][3].fn.id

\* C6: when two callers have each made a binder for a different name and
\* applied it, the registry holds the first caller's callable under the first
\* name and the second caller's under the second name, and nothing else.
C6_EachBinderKeepsItsName ==
    (thr # <<>> /\ \A t \in Threads : thr[t].pc = "done")
    => funcs[DefaultDispatcher] =
          [n \in {thr[1].name, thr[2].name} |->
              LET t == CHOOSE t \in Threads : thr[t].name = n
              IN  <<function_info(thr[t].fn, annotation_info(thr[t].fn))>>]

\* C7: __new__ with neither a callable nor a non-empty name fails with
\* ValueError and leaves the registry and the pending name as they were.
C7_MisuseRegistersNothing ==
    [][(last'.op = "new" /\ last'.fn = None /\ last'.name = "")
          => /\ last'.result = "ValueError"
             /\ funcs' = funcs
             /\ to_bind' = to_bind
      ]_vars

C7_Witness ==
    /\ last.op = "new"
    /\ last.result = "ValueError"
    /\ to_bind[last.d] = "X"
    /\ DOMAIN funcs[last.d] # {}

\* C8: once a resolver R has been assigned through instance.resolver, every
\* later lookup of a bound name returns what R selects from the candidates.
C8_ConfiguredResolverSelects ==
    (last.op = "getattr" /\ configured[last.d] # None /\ Candidates # <<>>)
    => /\ last.result = "ok"
       /\ last.ret = call_resolver(configured[last.d], Candidates).id

\* C9: a candidate whose type constraints are met by the arguments' runtime
\* types or their supertypes is eligible, and the first registered eligible
\* candidate runs even when a later one is more specific: with show(int, int)
\* before show(SpecialInt, int) the call (SpecialInt, int) runs the former,
\* in the opposite order the latter.
C9_DeclarationOrderOverSpecificity ==
    (last.op = "getattr" /\ Candidates # <<>> /\ ArityOK(Candidates, last.args)) =>
        /\ Matches(Candidates[1], last.args) => last.ret = Candidates[1].fn.id
        /\ (last.args = SpecialArgs /\ Len(Candidates) = 2
              /\ Candidates[1].fn = show_int /\ Candidates[2].fn = show_special)
           => last.ret = show_int.id
        /\ (last.args = SpecialArgs /\ Len(Candidates) = 2
              /\ Candidates[1].fn = show_special /\ Candidates[2].fn = show_int)
           => last.ret = show_special.id

C9_Witness ==
    /\ last.op = "getattr"
    /\ last.args = SpecialArgs
    /\ Len(Candidates) = 2
    /\ Candidates[1].fn = show_int
    /\ Candidates[2].fn = show_special
    /\ last.ret = show_int.id

\* C10: annotation_info returns exactly one entry for every formal parameter
\* of the callable, whatever the shape of its annotation.
C10_OneEntryPerParameter ==
    presult # None =>
        \A i \in 1..pfn.co_argcount :
            Cardinality({k \in 1..Len(presult) : presult[k].arg = pfn.co_varnames[i]}) = 1

\* ------------------------------------------------ properties of the parser
HasAmp(s) == \E i \in 1..Len(s) : s[i] = AMP

FirstAmp(s) == CHOOSE i \in 1..Len(s) : s[i] = AMP /\ \A j \in 1..(i - 1) : s[j] # AMP

BeforeAmp(s) == SubSeq(s, 1, FirstAmp(s) - 1)

AfterAmp(s) == SubSeq(s, FirstAmp(s) + 1, Len(s))

\* t is s without the white space at its two ends
IsTrimOf(t, s) ==
    \E i \in 1..(Len(s) + 1), j \in 0..Len(s) :
        /\ t = SubSeq(s, i, j)
        /\ \A k \in 1..(i - 1) : s[k] = WS
        /\ \A k \in (j + 1)..Len(s) : s[k] = WS
        /\ t = <<>> \/ (t[1] # WS /\ t[Len(t)] # WS)

\* s is the text of one type or of one union of types
IsTypeText(s) ==
    \E e \in TypeExprs \cup UnionExprs : IsTrimOf(<<e>>, s)

TypeConstraintOf(s) ==
    LET e == CHOOSE e \in TypeExprs \cup UnionExprs : IsTrimOf(<<e>>, s)
    IN  [kind |-> IF e \in UnionExprs THEN "UnionType" ELSE "type", v |-> e]

\* the entries the parse result holds for argument arg
EntriesOf(arg) == {k \in 1..Len(presult) : presult[k].arg = arg}

Parsed == presult # None

AnnotatedA == Parsed /\ "a" \in DOMAIN pfn.annotations

AnnA == pfn.annotations["a"]

\* C11: for an annotation 'T & predicate' whose text before the first '&' is
\* a type or a union, the entry is (T, all the text after the first '&',
\* later '&' included, without the white space at its ends).
C11_TypeAndPredicate ==
    (AnnotatedA /\ HasAmp(AnnA) /\ IsTypeText(BeforeAmp(AnnA))) =>
        /\ Cardinality(EntriesOf("a")) = 1
        /\ \A k \in EntriesOf("a") :
              /\ presult[k].info.type = TypeConstraintOf(BeforeAmp(AnnA))
              /\ IsTrimOf(presult[k].info.predicate, AfterAmp(AnnA))

C11_Witness ==
    /\ AnnotatedA
    /\ AnnA = <<"int | float", AMP, WS, AMP>>
    /\ \E k \in EntriesOf("a") :
          /\ presult[k].info.type.kind = "UnionType"
          /\ presult[k].info.predicate = <<AMP>>

\* C12: for an annotation with '&' whose text before the first '&' fails to
\* evaluate, the entry is (Any, the whole annotation without the white space
\* at its ends).
C12_CompoundPredicateKeptWhole ==
    (AnnotatedA /\ HasAmp(AnnA) /\ eval(BeforeAmp(AnnA)).kind = "raised") =>
        /\ Cardinality(EntriesOf("a")) = 1
        /\ \A k \in EntriesOf("a") :
              /\ presult[k].info.type = AnyType
              /\ IsTrimOf(presult[k].info.predicate, AnnA)

C12_Witness ==
    /\ AnnotatedA
    /\ AnnA = <<WS, "a > 42", AMP, "a > 42">>
    /\ \E k \in EntriesOf("a") :
          /\ presult[k].info.type = AnyType
          /\ presult[k].info.predicate = <<"a > 42", AMP, "a > 42">>

\* C13: the entries are those of the formal parameters, each once and in
\* declaration order, with no local variable and no return annotation, and a
\* parameter without annotation maps to (Any, 'True').
C13_EntriesAreTheFormalParameters ==
    Parsed =>
        /\ [k \in 1..Len(presult) |-> presult[k].arg]
              = SubSeq(pfn.co_varnames, 1, pfn.co_argcount)
        /\ \A k \in 1..Len(presult) :
              presult[k].arg \notin DOMAIN pfn.annotations
                  => presult[k].info = AnnotationInfo(AnyType, <<"True">>)

\* C14: for an annotation without '&' that is one type or one union of types,
\* the entry is (that type or union, 'True').
C14_PureTypeExpression ==
    (AnnotatedA /\ ~HasAmp(AnnA) /\ IsTypeText(AnnA)) =>
        /\ Cardinality(EntriesOf("a")) = 1
        /\ \A k \in EntriesOf("a") :
              presult[k].info = AnnotationInfo(TypeConstraintOf(AnnA), <<"True">>)

C14_Witness ==
    /\ AnnotatedA
    /\ AnnA = <<"int | float">>
    /\ "b" \in DOMAIN pfn.annotations
    /\ \E k \in EntriesOf("a") :
          presult[k].info = AnnotationInfo([kind |-> "UnionType", v |-> "int | float"], <<"True">>)
    /\ \E k \in EntriesOf("b") :
          presult[k].info = AnnotationInfo([kind |-> "type", v |-> "float"], <<"True">>)

\* C15: for an annotation without '&' that evaluates to a value that is not a
\* type, the entry is (Any, the string form of the value), 'False' for
\* '4 > 5'; when it fails to evaluate, the entry is (Any, the annotation
\* without the white space at its ends).
C15_ValueOrBarePredicate ==
    (AnnotatedA /\ ~HasAmp(AnnA)) =>
        /\ IsTrimOf(<<"4 > 5">>, AnnA) =>
              /\ Cardinality(EntriesOf("a")) = 1
              /\ \A k \in EntriesOf("a") :
                    presult[k].info = AnnotationInfo(AnyType, <<"False">>)
        /\ eval(AnnA).kind = "raised" =>
              /\ Cardinality(EntriesOf("a")) = 1
              /\ \A k \in EntriesOf("a") :
                    /\ presult[k].info.type = AnyType
                    /\ IsTrimOf(presult[k].info.predicate, AnnA)

C15_Witness ==
    /\ AnnotatedA
    /\ AnnA = <<WS, "4 > 5", WS>>
    /\ \E k \in EntriesOf("a") : presult[k].info = AnnotationInfo(AnyType, <<"False">>)

\* ------------------------------------------- properties of the introspection
\* the (name, index) pairs of the records of a registry
Records(fs) == UNION {{<<n, i>> : i \in 1..Len(fs[n])} : n \in DOMAIN fs}

\* C16: describe and the summary change neither the registry nor the pending
\* name nor the resolver, and the report of describe lists every name's
\* candidates in registration order, each flagged as re-bound exactly when
\* its own identifier differs from the name it is bound under.
C16_IntrospectionReadOnly ==
    [][/\ last'.op \in {"describe", "str"} =>
            /\ funcs' = funcs
            /\ to_bind' = to_bind
            /\ resolver' = resolver
            /\ inst_resolver' = inst_resolver
       /\ last'.op = "describe" =>
            LET fs == funcs'[last'.d]
                rp == last'.report
            IN  /\ DOMAIN rp = DOMAIN fs
                /\ \A key \in DOMAIN fs :
                      /\ Len(rp[key]) = Len(fs[key])
                      /\ \A n \in 1..Len(fs[key]) :
                            /\ rp[key][n].fn = fs[key][n].fn.id
                            /\ rp[key][n].rebound <=> (OwnName(fs[key][n].fn.id) # key)
      ]_vars

C16_Witness ==
    /\ last.op = "describe"
    /\ DOMAIN last.report = {"classify", "X"}
    /\ Len(last.report["classify"]) = 2
    /\ last.report["classify"][1].fn = "g"
    /\ last.report["classify"][2].fn = "f"
    /\ ~last.report["classify"][1].rebound
    /\ last.report["X"][1].rebound

\* C17: the summary reports as implementation count the number of records
\* over all names, reserved names included, which grows by one with every
\* registration and with nothing else, and as name count the number of bound
\* names outside the reserved set.
C17_SummaryCounts ==
    [][LET d == DefaultDispatcher
       IN  /\ IsRegistration(last', d) =>
                Cardinality(Records(funcs'[d])) = Cardinality(Records(funcs[d])) + 1
           /\ ~IsRegistration(last', d) =>
                /\ Cardinality(Records(funcs'[d])) = Cardinality(Records(funcs[d]))
                /\ DOMAIN funcs'[d] = DOMAIN funcs[d]
           /\ last'.op = "str" =>
                /\ last'.report.n_impls = Cardinality(Records(funcs'[d]))
                /\ last'.report.n_names =
                      Cardinality(DOMAIN funcs'[d] \ namespace_detritus)
      ]_vars

C17_Witness ==
    /\ last.op = "str"
    /\ DOMAIN funcs[DefaultDispatcher] = {"classify", ReservedName}
    /\ to_bind[DefaultDispatcher] = ReservedName
    /\ last.report.n_names = 1
    /\ last.report.n_impls = 3

\* C19: a lookup leaves the registry as it was, keys included; a key appears
\* only through a registration under that name; a lookup fails with NotBound
\* exactly while the name is no key; of two lookups of one name in a row the
\* second has the outcome of the first; and the resolver the class looks up
\* with changes only while no name is bound.
C19_LookupIsPureRead ==
    [][/\ last'.op = "getattr" =>
            /\ funcs' = funcs
            /\ (last'.result = "AttributeError")
                  <=> (last'.name \notin DOMAIN funcs'[last'.d])
            /\ (last.op = "getattr" /\ last.d = last'.d /\ last.name = last'.name)
                  => (last'.result = last.result /\ last'.ret = last.ret)
       /\ \A d \in Dispatchers : \A n \in DOMAIN funcs'[d] \ DOMAIN funcs[d] :
            IsRegistration(last', d) /\ last'.ret = n
       /\ \A d \in Dispatchers :
            resolver'[d] # resolver[d] => DOMAIN funcs[d] = {}
      ]_vars

C19_Witness ==
    /\ last.op = "getattr"
    /\ last.result = "AttributeError"
    /\ last.name = "X"
    /\ DOMAIN funcs[last.d] = {"classify", "show"}

\* ---------------------------------------------- properties of get_dispatcher
\* C18: an operation on one class made by get_dispatcher leaves the registry
\* and the pending name of every other class as they were, and a binder call
\* on a class uses and clears the pending name of that class, whichever of
\* its instances made the request.
C18_DispatchersIsolated ==
    [][/\ \A d \in Dispatchers :
            d # last'.d => (funcs'[d] = funcs[d] /\ to_bind'[d] = to_bind[d])
       /\ \A d \in Dispatchers :
            (IsRegistration(last', d) /\ last'.op = "call") =>
                /\ to_bind'[d] = None
                /\ last'.ret = (IF to_bind[d] # None THEN to_bind[d] ELSE OwnName(last'.fn))
                /\ Len(funcs'[d][last'.ret]) = Len(funcs_get(funcs[d], last'.ret)) + 1
      ]_vars

C18_Witness ==
    /\ last.op = "call"
    /\ last.d = 2
    /\ last.ret = "X"
    /\ to_bind = <<"X", None>>
    /\ DOMAIN funcs[1] = {"classify"}
    /\ DOMAIN funcs[2] = {"classify", "X"}
    /\ funcs[1]["classify"] # funcs[2]["classify"]

====
